---- MODULE Spec2Model ----
(***************************************************************************)
(* HIREX front end: the submission controller of main.js (v1.1.0), its     *)
(* toast, its cancel/timeout race and its localStorage result cache.       *)
(*                                                                         *)
(* One action is one browser task together with the microtasks it        *)
(* leaves behind: a promise continuation of the async submit handler runs  *)
(* in the microtask checkpoint of the task that settled the promise, so    *)
(* no other event handler can run between "fetch rejects" and the          *)
(* handler's catch/finally.                                                *)
(***************************************************************************)
EXTENDS Integers, Sequences, FiniteSets, TLC

(* ---------------------------------------------------------------------- *)
(* Bounds                                                                  *)
(* ---------------------------------------------------------------------- *)
MaxSubmits == 2      \* submissions that pass validation in one page life
MaxPermille == 1000  \* coverage ratios 0.000 .. 1.000, in thousandths
MaxTime == 6000      \* milliseconds of toast time that are followed
StepMs == 500        \* granularity of the moments at which a toast is shown

Subs == 1..MaxSubmits

(* ---------------------------------------------------------------------- *)
(* Strings as sequences of characters                                      *)
(* ---------------------------------------------------------------------- *)
Lower(c) ==
  CASE c = "T" -> "t"
    [] c = "E" -> "e"
    [] c = "X" -> "x"
    [] c = "R" -> "r"
    [] c = "S" -> "s"
    [] c = "U" -> "u"
    [] c = "M" -> "m"
    [] OTHER -> c

toLowerCase(s) == [k \in 1..Len(s) |-> Lower(s[k])]

endsWith(s, suf) ==
  /\ Len(s) >= Len(suf)
  /\ SubSeq(s, Len(s) - Len(suf) + 1, Len(s)) = suf

IsWhite(c) == c \in {" ", "\n", "\t"}

\* mutant: the value is used untrimmed
trim_NoTrim(s) == s

RECURSIVE trimStart(_)
trimStart(s) ==
  IF s # <<>> /\ IsWhite(Head(s)) THEN trimStart(Tail(s)) ELSE s

RECURSIVE trimEnd(_)
trimEnd(s) ==
  IF s # <<>> /\ IsWhite(s[Len(s)]) THEN trimEnd(SubSeq(s, 1, Len(s) - 1)) ELSE s

trim(s) == trimEnd(trimStart(s))

DotTex == <<".", "t", "e", "x">>

(* A selected file, or the absence of one (files[0] === undefined).        *)
NoFile == [has |-> FALSE, name |-> <<>>]
File(n) == [has |-> TRUE, name |-> n]

ResumeTex == File(<<"r", "e", "s", "u", "m", "e", ".", "t", "e", "x">>)
ResumeTEX == File(<<"R", "e", "s", "u", "m", "e", ".", "T", "E", "X">>)
ResumePdf == File(<<"r", "e", "s", "u", "m", "e", ".", "p", "d", "f">>)
BareTex == File(<<"t", "e", "x">>)

\* what the file dialog can select, and what can be dropped on the form
Files == { NoFile, ResumeTex, ResumePdf, BareTex }
DroppedFiles == { NoFile, ResumeTEX, ResumePdf }

JdTexts == { <<>>, <<" ", "\n", "\t">>, <<" ", "j", " ">> }

\* mutant: the extension is tested without its dot
isValidFile_NoDot(f) == f.has /\ endsWith(toLowerCase(f.name), <<"t", "e", "x">>)

isValidFile(f) == f.has /\ endsWith(toLowerCase(f.name), DotTex)

(* ---------------------------------------------------------------------- *)
(* Messages: sequences of text tokens                                      *)
(* ---------------------------------------------------------------------- *)
MsgValidation == <<"Please upload a valid .tex file and paste the job description.">>
MsgOptimizing == <<"Optimizing your resume...">>
MsgCanceledByUser == <<"Optimization canceled by user.">>
MsgAbort == <<"Optimization canceled or timed out (3 min limit).">>
MsgNetwork == <<"Network error - check FastAPI connection.">>
MsgUnexpected == <<"Unexpected error occurred.">>
MsgCleared == <<"Cleared form and local cache.">>
MsgOnlyTex == <<"Only .tex files supported.">>
MsgSelected == <<"Selected file:">>
MsgSuccess == <<"Optimized for">>

includes(msg, tok) == \E k \in 1..Len(msg) : msg[k] = tok

(* Errors the submit handler can catch.                                    *)
NoErr == [name |-> "none", message |-> <<>>]
AbortError == [name |-> "AbortError", message |-> <<"The user aborted a request.">>]
\* fetch() rejects with a TypeError whose text depends on the browser
NetworkErrors ==
  { [name |-> "TypeError", message |-> <<"Failed to fetch">>],
    [name |-> "TypeError", message |-> <<"NetworkError when attempting to fetch resource.">>] }
SyntaxError == [name |-> "SyntaxError", message |-> <<"Unexpected token">>]
EmptyLatexError == [name |-> "Error", message |-> <<"Empty LaTeX output from backend.">>]
Error(m) == [name |-> "Error", message |-> m]

\* bodies of a non-2xx response
ErrBodies == { <<>>, <<"detail: pdflatex failed">> }
HttpStatusText == <<"HTTP 500">>

(* ---------------------------------------------------------------------- *)
(* JSON payloads of POST /api/optimize and the localStorage result keys    *)
(* ---------------------------------------------------------------------- *)
\* an optional value: <<>> is undefined / key absent, <<v>> is the value v
None == <<>>
Some(v) == <<v>>
Truthy(o) == o # None /\ o[1] # ""

NoData ==
  [kind |-> "none", tex_string |-> None, pdf_base64 |-> None,
   pdf_base64_humanized |-> None, company_name |-> None, role |-> None,
   saved_paths |-> None, rating_score |-> None, coverage_permille |-> None,
   rating_history |-> None]
NullData == [NoData EXCEPT !.kind = "null"]
PayFull ==
  [kind |-> "object", tex_string |-> Some("T1"), pdf_base64 |-> Some("P1"),
   pdf_base64_humanized |-> Some("H1"), company_name |-> Some("Acme"),
   role |-> Some("Engineer"), saved_paths |-> Some(<<"out/a.pdf">>),
   rating_score |-> None, coverage_permille |-> Some(873),
   rating_history |-> Some(<<"round1">>)]
PayMin == [NoData EXCEPT !.kind = "object", !.tex_string = Some("T2")]
PayEmptyTex ==
  [NoData EXCEPT !.kind = "object", !.tex_string = Some(""),
                 !.pdf_base64 = Some("P2"), !.company_name = Some("Globex")]
PayNoTex ==
  [NoData EXCEPT !.kind = "object", !.pdf_base64 = Some("P3"),
                 !.rating_score = Some(64)]

Payloads == { NullData, PayFull, PayMin, PayEmptyTex, PayNoTex }

ResultKeys ==
  { "hirex_tex", "hirex_timestamp", "hirex_company", "hirex_role",
    "hirex_use_humanize", "hirex_pdf", "hirex_pdf_humanized",
    "hirex_saved_paths", "hirex_rating_score", "hirex_rating_history",
    "hirex_version" }

\* mutant: the reset list of the earlier main.js, without the later keys
ResetKeys_Short ==
  { "hirex_tex", "hirex_timestamp", "hirex_company", "hirex_role",
    "hirex_use_humanize", "hirex_pdf", "hirex_pdf_humanized" }

\* the keys the reset listener removes
ResetKeys ==
  { "hirex_tex", "hirex_timestamp", "hirex_company", "hirex_role",
    "hirex_use_humanize", "hirex_pdf", "hirex_pdf_humanized",
    "hirex_saved_paths", "hirex_rating_score", "hirex_rating_history",
    "hirex_version" }

\* the preference keys of ui.js, kept in the same localStorage
PrefKeys == { "hirex-theme", "hirex-use-humanize" }

StoreKeys == ResultKeys \cup PrefKeys

EmptyStore == [k \in StoreKeys |-> None]

\* x || d for an optional string
OrElse(o, d) == IF Truthy(o) THEN o[1] ELSE d

\* the ratios p/1000 whose binary64 product with 100 falls just below the
\* tie it equals in exact arithmetic: 0.145 * 100 is 14.499999999999998,
\* 0.285 * 100 is 28.499999999999996, 0.565 * 100 and 0.575 * 100 are
\* 56.49999999999999 and 57.49999999999999
FloatBelowHalf == { 145, 285, 565, 575 }

\* Math.round(coverage_ratio * 100), the ratio given in thousandths
RoundPercent(permille) ==
  IF permille \in FloatBelowHalf THEN permille \div 10
  ELSE (permille + 5) \div 10

fitScore(data) ==
  IF data.rating_score # None THEN data.rating_score
  ELSE IF data.coverage_permille # None
       THEN Some(RoundPercent(data.coverage_permille[1]))
       ELSE None

persistResults(st, data, useHumanize, t) ==
  LET kv == [st EXCEPT
               !["hirex_tex"] = Some(OrElse(data.tex_string, "")),
               !["hirex_pdf"] = Some(OrElse(data.pdf_base64, "")),
               !["hirex_pdf_humanized"] = Some(OrElse(data.pdf_base64_humanized, "")),
               !["hirex_timestamp"] = Some(t),
               !["hirex_company"] = Some(OrElse(data.company_name, "UnknownCompany")),
               !["hirex_role"] = Some(OrElse(data.role, "UnknownRole")),
               !["hirex_use_humanize"] = Some(IF useHumanize THEN "true" ELSE "false"),
               !["hirex_version"] = Some("v1.1.0")]
      sp == IF data.saved_paths # None
            THEN [kv EXCEPT !["hirex_saved_paths"] = data.saved_paths]
            ELSE kv
      sc == IF fitScore(data) # None
            THEN [sp EXCEPT !["hirex_rating_score"] = fitScore(data)]
            ELSE sp
  IN  [sc EXCEPT !["hirex_rating_history"] =
                    IF data.rating_history # None THEN data.rating_history
                    ELSE Some(<<>>)]

\* the localStorage.setItem calls of persistResults, in call order
Writes(data, useHumanize, t) ==
  << <<"hirex_tex", Some(OrElse(data.tex_string, ""))>>,
     <<"hirex_pdf", Some(OrElse(data.pdf_base64, ""))>>,
     <<"hirex_pdf_humanized", Some(OrElse(data.pdf_base64_humanized, ""))>>,
     <<"hirex_timestamp", Some(t)>>,
     <<"hirex_company", Some(OrElse(data.company_name, "UnknownCompany"))>>,
     <<"hirex_role", Some(OrElse(data.role, "UnknownRole"))>>,
     <<"hirex_use_humanize", Some(IF useHumanize THEN "true" ELSE "false")>>,
     <<"hirex_version", Some("v1.1.0")>> >>
  \o (IF data.saved_paths # None
      THEN << <<"hirex_saved_paths", data.saved_paths>> >> ELSE <<>>)
  \o (IF fitScore(data) # None
      THEN << <<"hirex_rating_score", fitScore(data)>> >> ELSE <<>>)
  \o << <<"hirex_rating_history",
          IF data.rating_history # None THEN data.rating_history ELSE Some(<<>>)>> >>

\* the store after the first k calls of ws have succeeded
RECURSIVE setItems(_, _, _)
setItems(st, ws, k) ==
  IF k = 0 THEN st
  ELSE [setItems(st, ws, k - 1) EXCEPT ![ws[k][1]] = ws[k][2]]

\* persistResults when the (k+1)-th setItem throws (quota exceeded): the
\* catch block logs to the console and returns; k = Len: no call throws
persistResultsQuota(st, data, useHumanize, t, k) ==
  setItems(st, Writes(data, useHumanize, t), k)

(* ---------------------------------------------------------------------- *)
(* State                                                                   *)
(* ---------------------------------------------------------------------- *)
VARIABLES
  file,          \* resumeInput.files[0]
  jd,            \* jdInput.value
  humanize,      \* humanizeToggle.checked
  formDisabled,  \* el.disabled of the form's own controls
  sub,           \* one record per invocation of the submit handler that passed validation
  nFetch,        \* POST /api/optimize requests issued so far
  toast,         \* the #toast element: text, visible class, pending dismiss timer
  emitted,       \* the showToast calls of the latest task that made any, in order
  store,         \* localStorage, result keys
  now,           \* Date.now(), as a logical clock
  nav,           \* "none", "scheduled" (setTimeout 1500 pending), "done" (page left)
  tt,            \* the toasts in time: clock, pending dismiss timers, preview element
  pg,            \* the preview page: what its load read and rendered, its exports
  tabs,          \* the open tabs: displayed theme and switch, storage events queued
  net            \* the call of _doFetch in progress and the requests of debugLog

vars == <<file, jd, humanize, formDisabled, sub, nFetch, toast, emitted,
          store, now, nav, tt, pg, tabs, net>>

InFlightPcs == {"awaitFetch", "awaitText", "awaitJson"}

FreshSub ==
  [pc |-> "unused", timer |-> "none", btn |-> "none", aborted |-> FALSE,
   fired |-> {}, err |-> NoErr, path |-> "none",
   notes |-> <<>>, cleanups |-> 0, useHumanize |-> FALSE]

\* default durations of the three toast functions, and the preview fade
MainToastMs == 3000
HirexToastMs == 2800
PreviewToastMs == 2500
PreviewFadeMs == 300

\* time: the clock; due: when toast._timeout of the #toast element fires
\* (0: none pending); pv: the #toast element of the preview page;
\* pvTimers: the setTimeout calls pending there; last, pvLast: the latest
\* show call on each element, its message, moment and duration
NoShow == [msg |-> <<>>, at |-> 0, dur |-> 0]

InitTT ==
  [time |-> 0, due |-> 0, last |-> NoShow,
   pv |-> [text |-> <<>>, display |-> "none", opacity |-> 0],
   pvTimers |-> {}, pvLast |-> NoShow]

\* the two PDF sections of the preview page
PdfLabels == { "orig", "hum" }

NoOp == [op |-> "none", ok |-> FALSE]

\* the preview page before its DOMContentLoaded listener has run.
\* status: "closed", "ready" (the listener returned), "failed" (it threw);
\* toastEl: whether #toast exists; the constants read from localStorage;
\* card, view, sections: what was rendered; the listeners installed;
\* url: the object URL of each section; timers: pending revokeObjectURL
\* calls; fetches: fetch(url) calls not yet settled; notes: the
\* notifications of the latest task; lastOp: the latest copy or download
ClosedPage ==
  [status |-> "closed", toastEl |-> TRUE, error |-> "none",
   texString |-> "", pdfB64 |-> "", pdfB64Humanized |-> "",
   company |-> "", role |-> "", ratingScore |-> 0, ratingRounds |-> 0,
   card |-> FALSE, view |-> "none",
   copyHandler |-> FALSE, texHandler |-> FALSE, pdfHandler |-> FALSE,
   sections |-> {}, url |-> [l \in PdfLabels |-> "none"],
   timers |-> {}, fetches |-> <<>>,
   notes |-> <<>>, lastOp |-> NoOp, clicks |-> 0]

\* two tabs of the same origin, sharing localStorage
Tabs == { "a", "b" }
Themes == { "dark", "light" }

\* per tab: whether ui.js has run there, html[data-theme], the humanize
\* switch (on: its "on" class; aria: the knob's aria-pressed and
\* aria-checked; hidden: the value of #use_humanize_state), the events
\* dispatched to it and not yet handled; actor, via: the tab whose
\* listener ran last, and which listener;
\* sys: the system theme; writes: user writes so far; owed: the user writes
\* not yet displayed by another open tab, as <<tab, key, value>>
NoTabs ==
  [tab |-> [t \in Tabs |-> [open |-> FALSE, theme |-> "dark", on |-> FALSE,
                            aria |-> "false", hidden |-> "off",
                            queue |-> <<>>]],
   sys |-> "dark", actor |-> "none", via |-> "none", writes |-> 0, owed |-> {}]

\* no call of _doFetch yet, no request of debugLog pending
NoNet ==
  [pc |-> "idle", n |-> 0, retries |-> 0, attempts |-> 0, timer |-> FALSE,
   errs |-> <<>>, thrown |-> NoErr, toast |-> "none", calls |-> 0,
   logs |-> 0, logOutcome |-> "none", warned |-> FALSE]

Init ==
  /\ file = NoFile
  /\ jd = <<>>
  /\ humanize = FALSE         \* the checkbox is unchecked in a fresh profile
  /\ formDisabled = FALSE
  /\ sub = [i \in Subs |-> FreshSub]
  /\ nFetch = 0
  /\ toast = [text |-> <<>>, visible |-> FALSE, timer |-> FALSE]
  /\ emitted = <<>>
  /\ store = EmptyStore
  /\ now = 1
  /\ nav = "none"
  /\ tt = InitTT
  /\ pg = ClosedPage
  /\ tabs = NoTabs
  /\ net = NoNet

PageAlive == nav # "done"

(* ---------------------------------------------------------------------- *)
(* Helpers of main.js                                                      *)
(* ---------------------------------------------------------------------- *)
\* showToast applied to each message of ms in order: the last one is left
\* in the element and owns the only pending dismiss timer
showToast(t, ms) ==
  IF ms = <<>> THEN t
  ELSE [text |-> ms[Len(ms)], visible |-> TRUE, timer |-> TRUE]

\* disableForm: every element of form.elements, the cancel buttons that are
\* attached to the form included
disableForm(s, state) ==
  [k \in Subs |->
     IF s[k].btn \in {"enabled", "disabled"}
     THEN [s[k] EXCEPT !.btn = IF state THEN "disabled" ELSE "enabled"]
     ELSE s[k]]

clearTimeout(tm) == IF tm = "armed" THEN "cleared" ELSE tm

\* the message the catch block shows for err
CatchMessage(err) ==
  IF err.name = "AbortError" THEN MsgAbort
  ELSE IF includes(err.message, "Failed to fetch") THEN MsgNetwork
  ELSE <<"X">> \o (IF err.message # <<>> THEN err.message ELSE MsgUnexpected)

\* catch (err) { ... showToast(...) }: submission i took the error path
Catch(s, i, err) ==
  [s EXCEPT ![i].err = err, ![i].path = "error",
            ![i].notes = @ \o <<CatchMessage(err)>>]

\* mutant: the finally block leaves the cancel button in the form
Finally_NoRemove(s, i) ==
  LET a == [s EXCEPT ![i].timer = clearTimeout(@)]
      b == disableForm(a, FALSE)
  IN  [b EXCEPT ![i].pc = "done", ![i].cleanups = @ + 1, ![i].useHumanize = FALSE]

\* mutant: the finally block does not clear the timeout
Finally_NoClear(s, i) ==
  LET b == disableForm(s, FALSE)
  IN  [b EXCEPT ![i].btn = "removed", ![i].pc = "done", ![i].cleanups = @ + 1,
                ![i].useHumanize = FALSE]

\* finally { clearTimeout(timeout); disableForm(false); cancelBtn.remove?.(); }
\* and the handler returns: its locals (useHumanize) are gone
Finally(s, i) ==
  LET a == [s EXCEPT ![i].timer = clearTimeout(@)]
      b == disableForm(a, FALSE)
  IN  [b EXCEPT ![i].btn = "removed", ![i].pc = "done", ![i].cleanups = @ + 1,
                ![i].useHumanize = FALSE]

\* what an abort of controller i settles: the promise the handler is awaiting
\* rejects with AbortError (res.text() has its rejection swallowed by .catch)
AbortSettles(s, i) ==
  CASE s[i].pc \in {"awaitFetch", "awaitJson"} -> Finally(Catch(s, i, AbortError), i)
    [] s[i].pc = "awaitText" -> Finally(Catch(s, i, Error(HttpStatusText)), i)
    [] OTHER -> s

\* the notifications the settling handler adds in that task
Added(s, t, i) == SubSeq(t[i].notes, Len(s[i].notes) + 1, Len(t[i].notes))

\* mutant: the job description is not validated
Validates_FileOnly(f, j) == isValidFile(f)

\* const jd = jdInput.value.trim(); if (!isValidFile(file) || !jd) ...
Validates(f, j) == isValidFile(f) /\ trim(j) # <<>>

(* ---------------------------------------------------------------------- *)
(* User input on the form                                                  *)
(* ---------------------------------------------------------------------- *)
\* the user picks a file in the dialog, types in the textarea
ChooseFile(f) ==
  /\ PageAlive /\ ~formDisabled
  /\ file' = f
  /\ UNCHANGED <<net, pg, tabs, tt, jd, humanize, formDisabled, sub, nFetch, toast, emitted, store, now, nav>>

TypeJd(t) ==
  /\ PageAlive /\ ~formDisabled
  /\ jd' = t
  /\ UNCHANGED <<net, pg, tabs, tt, file, humanize, formDisabled, sub, nFetch, toast, emitted, store, now, nav>>

\* form "drop" listener: the handler does not look at the disabled state
Drop(f) ==
  /\ PageAlive
  /\ IF isValidFile(f)
     THEN file' = f /\ emitted' = <<MsgSelected>>
     ELSE file' = file /\ emitted' = <<MsgOnlyTex>>
  /\ toast' = showToast(toast, emitted')
  /\ UNCHANGED <<net, pg, tabs, tt, jd, humanize, formDisabled, sub, nFetch, store, now, nav>>

(* ---------------------------------------------------------------------- *)
(* Submit handler, up to its first await                                   *)
(* ---------------------------------------------------------------------- *)
\* via "button": the submit button (a form control); via "ctrlEnter": the
\* document keydown listener calling form.requestSubmit()
Submit(via) ==
  /\ PageAlive
  /\ via = "button" => ~formDisabled
  /\ Validates(file, jd) => nFetch < MaxSubmits
  /\ IF ~Validates(file, jd)
     THEN /\ emitted' = <<MsgValidation>>
          /\ UNCHANGED <<net, pg, tabs, tt, formDisabled, sub, nFetch>>
     ELSE LET i == nFetch + 1
              s == disableForm(sub, TRUE)
          IN  /\ formDisabled' = TRUE
              /\ emitted' = <<MsgOptimizing>>
              /\ sub' = [s EXCEPT ![i] =
                           [FreshSub EXCEPT !.pc = "awaitFetch", !.timer = "armed",
                                            !.btn = "enabled",
                                            !.useHumanize = humanize]]
              /\ nFetch' = nFetch + 1
  /\ toast' = showToast(toast, emitted')
  /\ UNCHANGED <<net, pg, tabs, tt, file, jd, humanize, store, now, nav>>

\* mutant: a reset that also disarms the timers of the pending requests
Reset_ClearsTimers ==
  /\ PageAlive /\ ~formDisabled
  /\ store' = [k \in StoreKeys |-> IF k \in ResetKeys THEN None ELSE store[k]]
  /\ emitted' = <<MsgCleared>>
  /\ toast' = showToast(toast, emitted')
  /\ file' = NoFile /\ jd' = <<>> /\ humanize' = FALSE
  /\ sub' = [i \in Subs |-> [sub[i] EXCEPT !.timer = clearTimeout(@)]]
  /\ UNCHANGED <<net, pg, tabs, tt, formDisabled, nFetch, now, nav>>

\* form "reset" listener, then the browser's reset of the fields
Reset ==
  /\ PageAlive /\ ~formDisabled
  /\ store' = [k \in StoreKeys |-> IF k \in ResetKeys THEN None ELSE store[k]]
  /\ emitted' = <<MsgCleared>>
  /\ toast' = showToast(toast, emitted')
  /\ file' = NoFile /\ jd' = <<>> /\ humanize' = FALSE
  /\ UNCHANGED <<net, pg, tabs, tt, formDisabled, sub, nFetch, now, nav>>

(* ---------------------------------------------------------------------- *)
(* Submit handler, continuations after each await                          *)
(* ---------------------------------------------------------------------- *)
\* a step in which handler i ran its catch and finally blocks
Settle(s, i) ==
  /\ sub' = s
  /\ formDisabled' = IF s[i].pc = "done" /\ sub[i].pc # "done" THEN FALSE ELSE formDisabled
  /\ emitted' = IF Added(sub, s, i) # <<>> THEN Added(sub, s, i) ELSE emitted
  /\ toast' = showToast(toast, Added(sub, s, i))

\* fetch() resolves with a response: clearTimeout(timeout); cancelBtn.remove();
\* then res.text() or res.json() is awaited
FetchResponds(i, ok) ==
  /\ PageAlive
  /\ sub[i].pc = "awaitFetch"
  /\ sub' = [sub EXCEPT ![i].timer = clearTimeout(@), ![i].btn = "removed",
                        ![i].pc = IF ok THEN "awaitJson" ELSE "awaitText"]
  /\ UNCHANGED <<net, pg, tabs, tt, file, jd, humanize, formDisabled, nFetch, toast, emitted, store, now, nav>>

\* mutant: a rejected fetch is issued again
FetchFails_Retry(i, e) ==
  /\ PageAlive
  /\ sub[i].pc = "awaitFetch"
  /\ nFetch < MaxSubmits
  /\ nFetch' = nFetch + 1
  /\ UNCHANGED <<net, pg, tabs, tt, file, jd, humanize, formDisabled, sub, toast, emitted, store, now, nav>>

\* fetch() rejects: connection refused, DNS failure, CORS
FetchFails(i, e) ==
  /\ PageAlive
  /\ sub[i].pc = "awaitFetch"
  /\ Settle(Finally(Catch(sub, i, e), i), i)
  /\ UNCHANGED <<net, pg, tabs, tt, file, jd, humanize, nFetch, store, now, nav>>

\* setTimeout(() => controller.abort(), 180000)
TimerFires(i) ==
  /\ PageAlive
  /\ sub[i].timer = "armed"
  /\ LET s == [sub EXCEPT ![i].timer = "fired", ![i].aborted = TRUE,
                          ![i].fired = @ \cup {"timer"}]
     IN  Settle(IF sub[i].aborted THEN s ELSE AbortSettles(s, i), i)
  /\ UNCHANGED <<net, pg, tabs, tt, file, jd, humanize, nFetch, store, now, nav>>

\* cancelBtn.onclick: controller.abort(); showToast(...); cancelBtn.remove();
\* the handler's catch and finally follow in the same task
CancelClick(i) ==
  /\ PageAlive
  /\ sub[i].btn = "enabled"
  /\ LET s == [sub EXCEPT ![i].aborted = TRUE, ![i].fired = @ \cup {"cancel"},
                          ![i].notes = @ \o <<MsgCanceledByUser>>,
                          ![i].btn = "removed"]
     IN  Settle(IF sub[i].aborted THEN s ELSE AbortSettles(s, i), i)
  /\ UNCHANGED <<net, pg, tabs, tt, file, jd, humanize, nFetch, store, now, nav>>

\* res.text() resolves: throw new Error(errText || `HTTP ${res.status}`)
TextResolves(i, body) ==
  /\ PageAlive
  /\ sub[i].pc = "awaitText"
  /\ Settle(Finally(Catch(sub, i, Error(IF body # <<>> THEN body ELSE HttpStatusText)), i), i)
  /\ UNCHANGED <<net, pg, tabs, tt, file, jd, humanize, nFetch, store, now, nav>>

\* res.text() rejects: .catch(() => "") turns it into the empty text
TextRejects(i) ==
  /\ PageAlive
  /\ sub[i].pc = "awaitText"
  /\ Settle(Finally(Catch(sub, i, Error(HttpStatusText)), i), i)
  /\ UNCHANGED <<net, pg, tabs, tt, file, jd, humanize, nFetch, store, now, nav>>

\* mutant: only a missing tex_string is rejected
HasTex_AllowsEmpty(d) == d.kind = "object" /\ d.tex_string # None

\* mutant: any JSON object is taken as a result
HasTex_AnyObject(d) == d.kind = "object"

\* if (!data?.tex_string) throw ...
HasTex(d) == d.kind = "object" /\ Truthy(d.tex_string)

SuccessMessage(d) ==
  MsgSuccess \o <<OrElse(d.company_name, "Company"), OrElse(d.role, "Role"),
                  IF fitScore(d) # None THEN "score/100" ELSE "n/a">>

\* res.json() resolves with the parsed body
JsonResolves(i, d) ==
  /\ PageAlive
  /\ sub[i].pc = "awaitJson"
  /\ IF ~HasTex(d)
     THEN /\ Settle(Finally(Catch(sub, i, EmptyLatexError), i), i)
          /\ UNCHANGED <<net, pg, tabs, tt, store, now, nav>>
     ELSE /\ store' = persistResults(store, d, sub[i].useHumanize, now)
          /\ now' = now + 1
          /\ nav' = "scheduled"
          /\ sub' = Finally([sub EXCEPT ![i].path = "success"], i)
          /\ formDisabled' = FALSE
          /\ emitted' = <<SuccessMessage(d)>>
          /\ toast' = showToast(toast, emitted')
  /\ UNCHANGED <<net, pg, tabs, tt, file, jd, humanize, nFetch>>

\* res.json() resolves and, in persistResults, the (k+1)-th setItem throws
JsonResolvesQuota(i, d, k) ==
  /\ PageAlive
  /\ sub[i].pc = "awaitJson"
  /\ HasTex(d)
  /\ k \in 0..Len(Writes(d, sub[i].useHumanize, now))
  /\ store' = persistResultsQuota(store, d, sub[i].useHumanize, now, k)
  /\ now' = now + 1
  /\ nav' = "scheduled"
  /\ sub' = Finally([sub EXCEPT ![i].path = "success"], i)
  /\ formDisabled' = FALSE
  /\ emitted' = <<SuccessMessage(d)>>
  /\ toast' = showToast(toast, emitted')
  /\ UNCHANGED <<net, pg, tabs, tt, file, jd, humanize, nFetch>>

\* res.json() rejects: the body is not JSON
JsonRejects(i) ==
  /\ PageAlive
  /\ sub[i].pc = "awaitJson"
  /\ Settle(Finally(Catch(sub, i, SyntaxError), i), i)
  /\ UNCHANGED <<net, pg, tabs, tt, file, jd, humanize, nFetch, store, now, nav>>

\* setTimeout(() => (window.location.href = "/preview.html"), 1500)
Navigate ==
  /\ nav = "scheduled"
  /\ nav' = "done"
  /\ UNCHANGED <<net, pg, tabs, tt, file, jd, humanize, formDisabled, sub, nFetch, toast, emitted, store, now>>

(* ---------------------------------------------------------------------- *)
(* Preferences (ui.js) and the humanize checkbox                           *)
(* ---------------------------------------------------------------------- *)
MsgTheme == <<"Switched to theme mode">>
MsgHumanize == <<"Humanize / Optimize: ON">>

\* HIREX.toast: same element, same replace-and-rearm behaviour
HIREXtoast(t, ms) == showToast(t, ms)

\* the user clicks the #use_humanize checkbox
ToggleHumanize ==
  /\ PageAlive /\ ~formDisabled
  /\ humanize' = ~humanize
  /\ UNCHANGED <<net, pg, tabs, tt, file, jd, formDisabled, sub, nFetch, toast, emitted, store, now, nav>>

\* theme button click: setTheme(next) persists the theme and toasts
ThemeClick ==
  /\ PageAlive
  /\ LET cur == OrElse(store["hirex-theme"], "dark")
         next == IF cur = "dark" THEN "light" ELSE "dark"
     IN  store' = [store EXCEPT !["hirex-theme"] = Some(next)]
  /\ emitted' = <<MsgTheme>>
  /\ toast' = HIREXtoast(toast, emitted')
  /\ UNCHANGED <<net, pg, tabs, tt, file, jd, humanize, formDisabled, sub, nFetch, now, nav>>

\* humanize switch: setState(on) persists the preference and toasts
HumanizeSwitch(on) ==
  /\ PageAlive
  /\ store' = [store EXCEPT !["hirex-use-humanize"] = Some(IF on THEN "on" ELSE "off")]
  /\ emitted' = <<MsgHumanize>>
  /\ toast' = HIREXtoast(toast, emitted')
  /\ UNCHANGED <<net, pg, tabs, tt, file, jd, humanize, formDisabled, sub, nFetch, now, nav>>

Next ==
  \/ \E f \in DroppedFiles : Drop(f)
  \/ \E f \in Files : ChooseFile(f)
  \/ \E t \in JdTexts : TypeJd(t)
  \/ \E via \in {"button", "ctrlEnter"} : Submit(via)
  \/ Reset
  \/ \E i \in Subs, ok \in BOOLEAN : FetchResponds(i, ok)
  \/ \E i \in Subs, e \in NetworkErrors : FetchFails(i, e)
  \/ \E i \in Subs : TimerFires(i)
  \/ \E i \in Subs : CancelClick(i)
  \/ \E i \in Subs, body \in ErrBodies : TextResolves(i, body)
  \/ \E i \in Subs : TextRejects(i)
  \/ \E i \in Subs, d \in Payloads : JsonResolves(i, d)
  \/ \E i \in Subs : JsonRejects(i)
  \/ Navigate

Spec == Init /\ [][Next]_vars

\* A timer that is armed fires (unless the page is left first).  Nothing
\* obliges the backend to answer or to finish a response body.
LiveSpec == Spec /\ \A i \in Subs : WF_vars(TimerFires(i))

(* The result cache: submissions that get a 2xx answer, with storage       *)
(* writes that may fail, resets, and the preference keys.                  *)
StoreNext ==
  \/ ChooseFile(ResumeTex)
  \/ TypeJd(<<" ", "j", " ">>)
  \/ ToggleHumanize
  \/ Submit("button")
  \/ Reset
  \/ \E i \in Subs : FetchResponds(i, TRUE)
  \/ \E i \in Subs, d \in Payloads : JsonResolves(i, d)
  \/ \E i \in Subs, d \in Payloads :
       \E k \in 0..(Len(Writes(d, FALSE, 0)) - 1) : JsonResolvesQuota(i, d, k)
  \/ ThemeClick
  \/ \E on \in BOOLEAN : HumanizeSwitch(on)
  \/ Navigate

StoreSpec == Init /\ [][StoreNext]_vars

(* ---------------------------------------------------------------------- *)
(* The three toasts in time                                                *)
(* ---------------------------------------------------------------------- *)
ToastTexts == { <<"a">>, <<"b">> }

\* the moments at which some pending timer fires
DueTimes == { t.due : t \in tt.pvTimers } \cup (IF toast.timer THEN { tt.due } ELSE {})

\* time passes, never beyond a pending timer
Advance ==
  /\ tt.time + StepMs <= MaxTime
  /\ \A d \in DueTimes : tt.time + StepMs <= d
  /\ tt' = [tt EXCEPT !.time = @ + StepMs]
  /\ UNCHANGED <<net, pg, tabs, file, jd, humanize, formDisabled, sub, nFetch, toast, emitted, store, now, nav>>

\* time passes up to the next pending timer
AdvanceToDue ==
  /\ DueTimes # {}
  /\ \E d \in DueTimes :
       /\ \A e \in DueTimes : d <= e
       /\ d > tt.time
       /\ d - tt.time < StepMs
       /\ tt' = [tt EXCEPT !.time = d]
  /\ UNCHANGED <<net, pg, tabs, file, jd, humanize, formDisabled, sub, nFetch, toast, emitted, store, now, nav>>

\* main.js showToast(msg): text, class, clearTimeout, setTimeout
MainShow(m) ==
  /\ tt.time + MainToastMs <= MaxTime
  /\ emitted' = <<m>>
  /\ toast' = showToast(toast, emitted')
  /\ tt' = [tt EXCEPT !.due = tt.time + MainToastMs,
                       !.last = [msg |-> m, at |-> tt.time, dur |-> MainToastMs]]
  /\ UNCHANGED <<net, pg, tabs, file, jd, humanize, formDisabled, sub, nFetch, store, now, nav>>

\* ui.js HIREX.toast(msg): the same element and the same _timeout property
HirexShow(m) ==
  /\ tt.time + HirexToastMs <= MaxTime
  /\ emitted' = <<m>>
  /\ toast' = HIREXtoast(toast, emitted')
  /\ tt' = [tt EXCEPT !.due = tt.time + HirexToastMs,
                       !.last = [msg |-> m, at |-> tt.time, dur |-> HirexToastMs]]
  /\ UNCHANGED <<net, pg, tabs, file, jd, humanize, formDisabled, sub, nFetch, store, now, nav>>

\* () => toast.classList.remove("visible")
ToastExpires ==
  /\ toast.timer /\ tt.due = tt.time
  /\ toast' = [toast EXCEPT !.visible = FALSE, !.timer = FALSE]
  /\ UNCHANGED <<net, pg, tabs, tt, file, jd, humanize, formDisabled, sub, nFetch, emitted, store, now, nav>>

\* preview.js showToast(message): text, display, opacity, setTimeout; the
\* timers of earlier calls stay pending
PreviewShow(m) ==
  /\ tt.time + PreviewToastMs + PreviewFadeMs <= MaxTime
  /\ tt' = [tt EXCEPT !.pv = [text |-> m, display |-> "block", opacity |-> 1],
                       !.pvTimers = @ \cup { [due |-> tt.time + PreviewToastMs, kind |-> "fade"] },
                       !.pvLast = [msg |-> m, at |-> tt.time, dur |-> PreviewToastMs]]
  /\ UNCHANGED <<net, pg, tabs, file, jd, humanize, formDisabled, sub, nFetch, toast, emitted, store, now, nav>>

\* the outer timer: opacity 0, and the inner timer is set
PreviewFade ==
  \E t \in tt.pvTimers :
    /\ t.kind = "fade" /\ t.due = tt.time
    /\ tt' = [tt EXCEPT !.pv.opacity = 0,
                         !.pvTimers = (@ \ { t }) \cup
                            { [due |-> tt.time + PreviewFadeMs, kind |-> "hide"] }]
    /\ UNCHANGED <<net, pg, tabs, file, jd, humanize, formDisabled, sub, nFetch, toast, emitted, store, now, nav>>

\* the inner timer: display none
PreviewHide ==
  \E t \in tt.pvTimers :
    /\ t.kind = "hide" /\ t.due = tt.time
    /\ tt' = [tt EXCEPT !.pv.display = "none", !.pvTimers = @ \ { t }]
    /\ UNCHANGED <<net, pg, tabs, file, jd, humanize, formDisabled, sub, nFetch, toast, emitted, store, now, nav>>

ToastNext ==
  \/ Advance
  \/ AdvanceToDue
  \/ \E m \in ToastTexts : MainShow(m)
  \/ \E m \in ToastTexts : HirexShow(m)
  \/ ToastExpires
  \/ \E m \in ToastTexts : PreviewShow(m)
  \/ PreviewFade
  \/ PreviewHide

ToastSpec == Init /\ [][ToastNext]_vars

(* The fit score: persistResults applied to payloads that differ in their  *)
(* rating_score and coverage_ratio.                                        *)
ScorePayloads ==
  { [PayMin EXCEPT !.rating_score = r, !.coverage_permille = c] :
      r \in { None, Some(64), Some(150) },
      c \in { None } \cup { Some(p) : p \in 0..MaxPermille } }

ScorePersist(d) ==
  /\ now <= MaxSubmits
  /\ store' = persistResults(store, d, humanize, now)
  /\ now' = now + 1
  /\ UNCHANGED <<net, pg, tabs, tt, file, jd, humanize, formDisabled, sub, nFetch, toast, emitted, nav>>

ScoreNext ==
  \/ \E d \in ScorePayloads : ScorePersist(d)
  \/ Reset

ScoreSpec == Init /\ [][ScoreNext]_vars

(* ---------------------------------------------------------------------- *)
(* The preview page (preview.js) and the helpers of util.js it calls       *)
(* ---------------------------------------------------------------------- *)
MaxClicks == 2

\* payloads whose fields exercise the preview page
PaySpaced ==
  [PayMin EXCEPT !.tex_string = Some("T3"), !.pdf_base64 = Some("P1"),
                 !.company_name = Some("Acme Corp"),
                 !.role = Some("Staff Engineer")]
PayBadPdf ==
  [PayMin EXCEPT !.pdf_base64 = Some("%PDF-1.7 raw"),
                 !.pdf_base64_humanized = Some("H1")]
PayZeroScore == [PayMin EXCEPT !.pdf_base64 = Some("P1"), !.rating_score = Some(0)]

PreviewPayloads == { PayFull, PayMin, PaySpaced, PayBadPdf, PayZeroScore }

\* a stored text that JSON.parse rejects
NotJson == <<"{not json">>

\* s.replace(/\s+/g, "_") on the names of the payloads
replaceSpaces(s) ==
  CASE s = "Acme Corp" -> "Acme_Corp"
    [] s = "Staff Engineer" -> "Staff_Engineer"
    [] OTHER -> s

\* lsGet of util.js; throws: the underlying storage raises
lsGet(st, key, throws) == IF throws THEN None ELSE st[key]

\* lsSet of util.js: the store afterwards and the boolean returned
lsSet(st, key, val, throws) ==
  IF throws THEN [store |-> st, ok |-> FALSE]
  ELSE [store |-> [st EXCEPT ![key] = Some(val)], ok |-> TRUE]

\* parseInt(raw || "0", 10) on a stored score
parseInt(raw) == IF raw = None THEN 0 ELSE raw[1]

\* mutant: the parse of the history without its try/catch
ratingRoundsOf_NoCatch(raw) ==
  IF raw = NotJson THEN [rounds |-> 0, error |-> "SyntaxError"]
  ELSE [rounds |-> Len(raw), error |-> "none"]

\* try { ratingRounds = JSON.parse(raw)?.length || 0; } catch {}
ratingRoundsOf(raw) ==
  IF raw = NotJson THEN [rounds |-> 0, error |-> "none"]
  ELSE [rounds |-> Len(raw), error |-> "none"]

\* the strings atob accepts, among those of the payloads
ValidBase64 == { "P1", "P2", "P3", "H1" }

\* the three notification functions: where a message ends up
mainShowToast(el, msg) == [via |-> IF el THEN "toast" ELSE "alert", msg |-> msg]
previewShowToast(el, msg) == [via |-> IF el THEN "toast" ELSE "alert", msg |-> msg]
hirexToast(el, msg) == [via |-> IF el THEN "toast" ELSE "console", msg |-> msg]

\* base64ToBlob of util.js: the blob, or null and a toast
base64ToBlob(el, b64) ==
  IF b64 \in ValidBase64 THEN [blob |-> "blob", notes |-> <<>>]
  ELSE [blob |-> "null", notes |-> <<hirexToast(el, "Failed to decode Base64.")>>]

\* renderPDFSection for one label: URL.createObjectURL(null) throws
renderPDFSection(p, l, b64) ==
  IF p.error # "none" \/ b64 = "" THEN p
  ELSE LET r == base64ToBlob(p.toastEl, b64)
       IN  IF r.blob = "null"
           THEN [p EXCEPT !.error = "TypeError", !.notes = @ \o r.notes]
           ELSE [p EXCEPT !.sections = @ \cup { l }, !.url[l] = "live"]

\* downloadFile of util.js: failures inside are caught there and toasted
downloadFile(el, ok) ==
  <<hirexToast(el, IF ok THEN "Downloading file..." ELSE "Download failed.")>>

\* the DOMContentLoaded listener of preview.js
LoadedPage(st, el) ==
  LET tex == OrElse(st["hirex_tex"], "")
      pdf == OrElse(st["hirex_pdf"], "")
      pdfH == OrElse(st["hirex_pdf_humanized"], "")
      score == parseInt(st["hirex_rating_score"])
      hist == ratingRoundsOf(IF st["hirex_rating_history"] = None THEN <<>>
                             ELSE st["hirex_rating_history"][1])
      p0 == [ClosedPage EXCEPT
               !.toastEl = el,
               !.texString = tex, !.pdfB64 = pdf, !.pdfB64Humanized = pdfH,
               !.company = replaceSpaces(OrElse(st["hirex_company"], "Company")),
               !.role = replaceSpaces(OrElse(st["hirex_role"], "Role")),
               !.ratingScore = score, !.ratingRounds = hist.rounds,
               !.error = hist.error]
      p1 == IF p0.error # "none" THEN p0
            ELSE [p0 EXCEPT
                    !.card = (score > 0),
                    !.view = IF tex # "" THEN "tex" ELSE "placeholder",
                    !.notes = <<previewShowToast(el,
                                  IF tex # "" THEN "Optimized LaTeX loaded successfully."
                                  ELSE "No LaTeX found in cache.")>>,
                    !.copyHandler = TRUE, !.texHandler = TRUE]
      p2 == renderPDFSection(p1, "orig", pdf)
      p3 == renderPDFSection(p2, "hum", pdfH)
  IN  IF p3.error # "none" THEN [p3 EXCEPT !.status = "failed"]
      ELSE [p3 EXCEPT !.status = "ready", !.pdfHandler = TRUE]

\* the page is opened; throws: localStorage raises on access
PreviewLoad(throws, el) ==
  /\ pg.status = "closed"
  /\ pg' = IF throws
           THEN [ClosedPage EXCEPT !.status = "failed", !.toastEl = el,
                                   !.error = "SecurityError"]
           ELSE LoadedPage(store, el)
  /\ UNCHANGED <<net, tabs, tt, file, jd, humanize, formDisabled, sub, nFetch, toast,
                 emitted, store, now, nav>>

\* another script of the origin leaves a text in the history key
ForeignWrite ==
  /\ pg.status = "closed"
  /\ store["hirex_rating_history"] # Some(NotJson)
  /\ store' = [store EXCEPT !["hirex_rating_history"] = Some(NotJson)]
  /\ UNCHANGED <<net, pg, tabs, tt, file, jd, humanize, formDisabled, sub, nFetch, toast,
                 emitted, now, nav>>

\* click on "Copy LaTeX", and the settling of clipboard.writeText
CopyClick(ok) ==
  /\ pg.copyHandler /\ pg.clicks < MaxClicks
  /\ pg' = [pg EXCEPT
              !.clicks = @ + 1,
              !.notes = <<previewShowToast(pg.toastEl,
                            IF pg.texString = "" THEN "No LaTeX data to copy!"
                            ELSE IF ok THEN "LaTeX copied to clipboard!"
                            ELSE "Unable to copy to clipboard.")>>,
              !.lastOp = IF pg.texString = "" THEN NoOp
                         ELSE [op |-> "copy", ok |-> ok]]
  /\ UNCHANGED <<net, tabs, tt, file, jd, humanize, formDisabled, sub, nFetch, toast,
                 emitted, store, now, nav>>

\* click on #download-tex
DownloadTexClick(ok) ==
  /\ pg.texHandler /\ pg.clicks < MaxClicks
  /\ pg' = [pg EXCEPT
              !.clicks = @ + 1,
              !.notes = IF pg.texString = ""
                        THEN <<previewShowToast(pg.toastEl, "No LaTeX data found!")>>
                        ELSE downloadFile(pg.toastEl, ok) \o
                             <<previewShowToast(pg.toastEl, "Downloading .tex file...")>>,
              !.lastOp = IF pg.texString = "" THEN NoOp
                         ELSE [op |-> "tex", ok |-> ok]]
  /\ UNCHANGED <<net, tabs, tt, file, jd, humanize, formDisabled, sub, nFetch, toast,
                 emitted, store, now, nav>>

\* click on the download button of a PDF section: fetch(url) starts
PdfClick(l) ==
  /\ pg.pdfHandler /\ l \in pg.sections /\ pg.clicks < MaxClicks
  /\ pg' = [pg EXCEPT
              !.clicks = @ + 1,
              !.fetches = Append(@, [label |-> l, ok |-> pg.url[l] = "live"])]
  /\ UNCHANGED <<net, tabs, tt, file, jd, humanize, formDisabled, sub, nFetch, toast,
                 emitted, store, now, nav>>

\* the fetch settles: .then(blob => download, toast, revoke timer) or .catch
PdfFetched(ok) ==
  /\ pg.fetches # <<>>
  /\ LET f == Head(pg.fetches)
     IN  pg' = [pg EXCEPT
                  !.fetches = Tail(@),
                  !.notes = IF f.ok
                            THEN downloadFile(pg.toastEl, ok) \o
                                 <<previewShowToast(pg.toastEl, "Downloading Resume...")>>
                            ELSE <<previewShowToast(pg.toastEl, "Unable to download PDF.")>>,
                  !.timers = IF f.ok THEN @ \cup { f.label } ELSE @,
                  !.lastOp = [op |-> "pdf", ok |-> f.ok /\ ok]]
  /\ UNCHANGED <<net, tabs, tt, file, jd, humanize, formDisabled, sub, nFetch, toast,
                 emitted, store, now, nav>>

\* setTimeout(() => URL.revokeObjectURL(url), 1500) fires
RevokeFires(l) ==
  /\ l \in pg.timers
  /\ pg' = [pg EXCEPT !.timers = @ \ { l }, !.url[l] = "revoked"]
  /\ UNCHANGED <<net, tabs, tt, file, jd, humanize, formDisabled, sub, nFetch, toast,
                 emitted, store, now, nav>>

PreviewNext ==
  \/ ChooseFile(ResumeTex)
  \/ TypeJd(<<" ", "j", " ">>)
  \/ Submit("button")
  \/ \E i \in Subs : FetchResponds(i, TRUE)
  \/ \E i \in Subs, d \in PreviewPayloads : JsonResolves(i, d)
  \/ Navigate
  \/ ForeignWrite
  \/ \E throws \in BOOLEAN, el \in BOOLEAN : PreviewLoad(throws, el)
  \/ \E ok \in BOOLEAN : CopyClick(ok)
  \/ \E ok \in BOOLEAN : DownloadTexClick(ok)
  \/ \E l \in PdfLabels : PdfClick(l)
  \/ \E ok \in BOOLEAN : PdfFetched(ok)
  \/ \E l \in PdfLabels : RevokeFires(l)

PreviewSpec == Init /\ [][PreviewNext]_vars

(* ---------------------------------------------------------------------- *)
(* The preferences across tabs (ui.js)                                     *)
(* ---------------------------------------------------------------------- *)
MaxWrites == 4

OpenTabs == { t \in Tabs : tabs.tab[t].open }

\* what a tab displays for a preference key
Shown(tb, t, key) ==
  IF key = "hirex-theme" THEN tb[t].theme
  ELSE IF tb[t].on THEN "on" ELSE "off"

\* localStorage.setItem(key, val) in tab t: the other open documents get a
\* storage event when the value changes
setItem(st, tb, t, key, val) ==
  [store |-> [st EXCEPT ![key] = Some(val)],
   tab |-> [u \in Tabs |->
              IF u # t /\ tb[u].open /\ st[key] # Some(val)
              THEN [tb[u] EXCEPT !.queue = Append(@, [key |-> key, newValue |-> val])]
              ELSE tb[u]]]

\* the writes still owed, after a step: those a tab now displays are met
StillOwed(tb, owed) == { o \in owed : Shown(tb, o[1], o[2]) # o[3] }

\* a user write of val under key in tab t is owed to every other open tab
Owes(tb, t, key, val) == { <<u, key, val>> : u \in { v \in Tabs : v # t /\ tb[v].open } }

\* setTheme(theme, { persist, silent: true }) without the toast
setTheme(st, tb, t, theme, persist) ==
  LET shown == [tb EXCEPT ![t].theme = theme]
  IN  IF persist THEN setItem(st, shown, t, "hirex-theme", theme)
      ELSE [store |-> st, tab |-> shown]

\* mutant: a setState that leaves the hidden field as it was
setState_NoHidden(st, tb, t, on) ==
  setItem(st, [tb EXCEPT ![t].on = on,
                         ![t].aria = IF on THEN "true" ELSE "false"],
          t, "hirex-use-humanize", IF on THEN "on" ELSE "off")

\* setState(on, { silent: true }) of the humanize switch: always persists
setState(st, tb, t, on) ==
  setItem(st, [tb EXCEPT ![t].on = on,
                         ![t].aria = IF on THEN "true" ELSE "false",
                         ![t].hidden = IF on THEN "on" ELSE "off"],
          t, "hirex-use-humanize", IF on THEN "on" ELSE "off")

\* ui.js runs in a new tab: initial theme (saved, else system), then the
\* switch takes the saved state and persists it
TabOpen(t, sys) ==
  /\ ~tabs.tab[t].open
  /\ OpenTabs # {} => sys = tabs.sys
  /\ LET saved == store["hirex-theme"]
         r1 == setTheme(store, [tabs.tab EXCEPT ![t].open = TRUE], t,
                        OrElse(saved, sys), Truthy(saved))
         savedH == r1.store["hirex-use-humanize"]
         r2 == setState(r1.store, r1.tab, t, Truthy(savedH) /\ savedH[1] = "on")
     IN  /\ store' = r2.store
         /\ tabs' = [tabs EXCEPT !.tab = r2.tab, !.sys = sys, !.actor = t, !.via = "load",
                                 !.owed = StillOwed(r2.tab, @)]
  /\ UNCHANGED <<net, pg, tt, file, jd, humanize, formDisabled, sub, nFetch, toast,
                 emitted, now, nav>>

\* the toast of a click in tab t; the #toast element modelled is that of "a"
TabToast(t, m) ==
  IF t = "a" THEN emitted' = <<m>> /\ toast' = HIREXtoast(toast, emitted')
  ELSE UNCHANGED <<net, toast, emitted>>

\* theme button click in tab t
TabThemeClick(t) ==
  /\ tabs.tab[t].open /\ tabs.writes < MaxWrites
  /\ LET cur == tabs.tab[t].theme
         next == IF cur = "dark" THEN "light" ELSE "dark"
         r == setTheme(store, tabs.tab, t, next, TRUE)
     IN  /\ store' = r.store
         /\ tabs' = [tabs EXCEPT
                       !.tab = r.tab, !.writes = @ + 1, !.actor = t,
                       !.via = "theme",
                       !.owed = StillOwed(r.tab, @ \cup
                                  Owes(r.tab, t, "hirex-theme", next))]
  /\ TabToast(t, MsgTheme)
  /\ UNCHANGED <<net, pg, tt, file, jd, humanize, formDisabled, sub, nFetch, now, nav>>

\* click on the switch or on one of its two options in tab t
TabHumanizeClick(t, on) ==
  /\ tabs.tab[t].open /\ tabs.writes < MaxWrites
  /\ LET r == setState(store, tabs.tab, t, on)
     IN  /\ store' = r.store
         /\ tabs' = [tabs EXCEPT
                       !.tab = r.tab, !.writes = @ + 1, !.actor = t,
                       !.via = "switch",
                       !.owed = StillOwed(r.tab, @ \cup
                                  Owes(r.tab, t, "hirex-use-humanize",
                                       IF on THEN "on" ELSE "off"))]
  /\ TabToast(t, MsgHumanize)
  /\ UNCHANGED <<net, pg, tt, file, jd, humanize, formDisabled, sub, nFetch, now, nav>>

\* the two "storage" listeners of ui.js on event e in tab t
OnStorage(st, tb, t, e) ==
  IF e.key = "hirex-theme" /\ e.newValue # ""
  THEN setTheme(st, tb, t, e.newValue, FALSE)
  ELSE IF e.key = "hirex-use-humanize" /\ e.newValue # ""
       THEN setState(st, tb, t, e.newValue = "on")
       ELSE [store |-> st, tab |-> tb]

\* the event loop of tab t dispatches its next storage event
StorageEvent(t) ==
  /\ tabs.tab[t].queue # <<>>
  /\ Head(tabs.tab[t].queue).key \in PrefKeys
  /\ LET e == Head(tabs.tab[t].queue)
         r == OnStorage(store, [tabs.tab EXCEPT ![t].queue = Tail(@)], t, e)
     IN  /\ store' = r.store
         /\ tabs' = [tabs EXCEPT !.tab = r.tab, !.actor = t, !.via = e.key,
                                 !.owed = StillOwed(r.tab, @)]
  /\ UNCHANGED <<net, pg, tt, file, jd, humanize, formDisabled, sub, nFetch, toast,
                 emitted, now, nav>>

TabNext ==
  \/ \E t \in Tabs, sys \in Themes : TabOpen(t, sys)
  \/ \E t \in Tabs : TabThemeClick(t)
  \/ \E t \in Tabs, on \in BOOLEAN : TabHumanizeClick(t, on)
  \/ \E t \in Tabs : StorageEvent(t)
  \/ ChooseFile(ResumeTex)
  \/ TypeJd(<<" ", "j", " ">>)
  \/ Submit("button")
  \/ \E i \in Subs : FetchResponds(i, TRUE)
  \/ \E i \in Subs : JsonResolves(i, PayMin)

\* a queued storage event is dispatched by the tab's event loop
TabSpec == Init /\ [][TabNext]_vars /\ \A t \in Tabs : WF_vars(StorageEvent(t))

(* The preferences without a submission: clicks and key presses in two     *)
(* tabs, storage events, and changes of the system colour scheme.          *)

\* the system colour scheme changes: every open document gets a "change"
\* event of its media query list
SystemChange ==
  /\ OpenTabs # {} /\ tabs.writes < MaxWrites
  /\ tabs' = [tabs EXCEPT
                !.sys = IF @ = "dark" THEN "light" ELSE "dark",
                !.writes = @ + 1,
                !.tab = [t \in Tabs |->
                           IF tabs.tab[t].open
                           THEN [tabs.tab[t] EXCEPT
                                   !.queue = Append(@, [key |-> "mql", newValue |-> ""])]
                           ELSE tabs.tab[t]]]
  /\ UNCHANGED <<net, pg, tt, file, jd, humanize, formDisabled, sub, nFetch, toast,
                 emitted, store, now, nav>>

\* mutant: the system theme is persisted like a user's choice
OnSystemChange_Persist(st, tb, t, sys) ==
  IF ~Truthy(st["hirex-theme"]) THEN setTheme(st, tb, t, sys, TRUE)
  ELSE [store |-> st, tab |-> tb]

\* the "change" listener: follow the system only if no theme is saved
OnSystemChange(st, tb, t, sys) ==
  IF ~Truthy(st["hirex-theme"]) THEN setTheme(st, tb, t, sys, FALSE)
  ELSE [store |-> st, tab |-> tb]

\* the event loop of tab t dispatches its next "change" event
MqlEvent(t) ==
  /\ tabs.tab[t].queue # <<>>
  /\ Head(tabs.tab[t].queue).key = "mql"
  /\ LET r == OnSystemChange(store, [tabs.tab EXCEPT ![t].queue = Tail(@)], t, tabs.sys)
     IN  /\ store' = r.store
         /\ tabs' = [tabs EXCEPT !.tab = r.tab, !.actor = t, !.via = "mql",
                                 !.owed = StillOwed(r.tab, @)]
  /\ UNCHANGED <<net, pg, tt, file, jd, humanize, formDisabled, sub, nFetch, toast,
                 emitted, now, nav>>

PrefNext ==
  \/ \E t \in Tabs, sys \in Themes : TabOpen(t, sys)
  \/ \E t \in Tabs : TabThemeClick(t)
  \/ \E t \in Tabs, on \in BOOLEAN : TabHumanizeClick(t, on)
  \/ \E t \in Tabs : StorageEvent(t)
  \/ SystemChange
  \/ \E t \in Tabs : MqlEvent(t)

PrefSpec == Init /\ [][PrefNext]_vars

(* ---------------------------------------------------------------------- *)
(* util.js _doFetch (retry + timeout) and HIREX.debugLog of ui.js          *)
(* ---------------------------------------------------------------------- *)
MaxRetries == 1
MaxCalls == 1
MaxLogs == 2

\* `HTTP ${response.status}: ${errText || "Unknown error"}`
HttpError(body) ==
  Error(HttpStatusText \o <<": ">>
          \o (IF body = <<>> THEN <<"Unknown error">> ELSE body))

\* HIREX.debugLog is called and not awaited: its request to
\* /api/debug/log is now pending
debugLog(nt) == [nt EXCEPT !.logs = @ + 1]

debugLogSettles_Rethrow(nt, ok) ==
  [nt EXCEPT !.logs = @ - 1,
             !.logOutcome = IF ok THEN "resolved" ELSE "rejected",
             !.warned = ~ok]

\* the awaited fetch of debugLog settles: a rejection is caught and
\* reported with console.warn; the promise of debugLog resolves
debugLogSettles(nt, ok) ==
  [nt EXCEPT !.logs = @ - 1, !.logOutcome = "resolved", !.warned = ~ok]

\* the catch block of _doFetch
Caught(nt, err) ==
  LET c == [nt EXCEPT !.timer = FALSE, !.errs = Append(@, err)]
  IN  IF nt.retries > 0
      THEN [c EXCEPT !.toast = "retrying", !.pc = "pause"]
      ELSE debugLog([c EXCEPT !.toast = "error", !.pc = "rejected",
                              !.thrown = err])

\* _doFetch(url, options, n) is called
DoFetch(n) ==
  /\ net.pc \in {"idle", "resolved", "rejected"} /\ net.calls < MaxCalls
  /\ net' = [net EXCEPT !.pc = "awaitFetch", !.n = n, !.retries = n,
                        !.attempts = 1, !.timer = TRUE, !.errs = <<>>,
                        !.thrown = NoErr, !.toast = "none", !.calls = @ + 1]
  /\ UNCHANGED <<pg, tabs, tt, file, jd, humanize, formDisabled, sub, nFetch,
                 toast, emitted, store, now, nav>>

\* the response headers arrive: the timer is cleared; a non-2xx response
\* has its body read before the error is thrown
NetResponds(ok) ==
  /\ net.pc = "awaitFetch"
  /\ net' = [net EXCEPT !.timer = FALSE,
                        !.pc = IF ok THEN "resolved" ELSE "awaitErrText"]
  /\ UNCHANGED <<pg, tabs, tt, file, jd, humanize, formDisabled, sub, nFetch,
                 toast, emitted, store, now, nav>>

\* response.text() settles (a rejection gives ""): log, throw, catch
ErrTextSettles(body) ==
  /\ net.pc = "awaitErrText"
  /\ net' = Caught(debugLog(net), HttpError(body))
  /\ UNCHANGED <<pg, tabs, tt, file, jd, humanize, formDisabled, sub, nFetch,
                 toast, emitted, store, now, nav>>

\* fetch rejects: the network failed
NetRejects(e) ==
  /\ net.pc = "awaitFetch"
  /\ net' = Caught(net, e)
  /\ UNCHANGED <<pg, tabs, tt, file, jd, humanize, formDisabled, sub, nFetch,
                 toast, emitted, store, now, nav>>

\* the timeout timer of the attempt fires: controller.abort() makes the
\* pending fetch reject with an AbortError
TimeoutFires ==
  /\ net.pc = "awaitFetch" /\ net.timer
  /\ net' = Caught([net EXCEPT !.timer = FALSE], AbortError)
  /\ UNCHANGED <<pg, tabs, tt, file, jd, humanize, formDisabled, sub, nFetch,
                 toast, emitted, store, now, nav>>

\* the 800 ms pause is over: _doFetch(url, options, retries - 1)
PauseEnds ==
  /\ net.pc = "pause"
  /\ net' = [net EXCEPT !.pc = "awaitFetch", !.retries = @ - 1,
                        !.attempts = @ + 1, !.timer = TRUE]
  /\ UNCHANGED <<pg, tabs, tt, file, jd, humanize, formDisabled, sub, nFetch,
                 toast, emitted, store, now, nav>>

\* some other code of the page calls HIREX.debugLog
DebugLogCall ==
  /\ net.logs < MaxLogs
  /\ net' = debugLog(net)
  /\ UNCHANGED <<pg, tabs, tt, file, jd, humanize, formDisabled, sub, nFetch,
                 toast, emitted, store, now, nav>>

\* a pending request of debugLog resolves (ok) or rejects
LogSettles(ok) ==
  /\ net.logs > 0
  /\ net' = debugLogSettles(net, ok)
  /\ UNCHANGED <<pg, tabs, tt, file, jd, humanize, formDisabled, sub, nFetch,
                 toast, emitted, store, now, nav>>

FetchNext ==
  \/ \E n \in 0..MaxRetries : DoFetch(n)
  \/ \E ok \in BOOLEAN : NetResponds(ok)
  \/ \E body \in ErrBodies : ErrTextSettles(body)
  \/ \E e \in NetworkErrors : NetRejects(e)
  \/ TimeoutFires
  \/ PauseEnds
  \/ DebugLogCall
  \/ \E ok \in BOOLEAN : LogSettles(ok)
  \/ ChooseFile(ResumeTex)
  \/ TypeJd(<<" ", "j", " ">>)
  \/ Submit("button")
  \/ \E i \in Subs : FetchResponds(i, TRUE)
  \/ \E i \in Subs : JsonResolves(i, PayMin)

FetchSpec == Init /\ [][FetchNext]_vars

\* timers fire; what the network does is up to the network
FetchFairSpec ==
  Init /\ [][FetchNext]_vars /\ WF_vars(TimeoutFires) /\ WF_vars(PauseEnds)

\* the words of the JD Fit Score card: its heading; the two paragraphs
\* under it are the round count and "<score>/100". No other text of the
\* page is computed from the score.
scoreCardLabels(p) == IF p.card THEN { "JD Fit Score" } ELSE {}

(* main.js and ui.js on one page: ui.js has replaced the legacy checkbox   *)
(* by the switch and disabled the resume input before the user acts.       *)

\* resumeInput.disabled: set by neutralizeTexUpload when ui.js runs, then
\* by every disableForm call, like the other controls of the form
resumeDisabled == IF nFetch = 0 THEN tabs.tab["a"].open ELSE formDisabled

\* DOMContentLoaded has run the listeners of main.js and of ui.js
UiReady == tabs.tab["a"].open

UiNext ==
  \/ \E sys \in Themes : TabOpen("a", sys)
  \/ UiReady /\ Drop(ResumeTEX)
  \/ UiReady /\ TypeJd(<<" ", "j", " ">>)
  \/ UiReady /\ \E on \in BOOLEAN : TabHumanizeClick("a", on)
  \/ UiReady /\ TabThemeClick("a")
  \/ UiReady /\ \E via \in {"button", "ctrlEnter"} : Submit(via)
  \/ UiReady /\ \E i \in Subs, ok \in BOOLEAN : FetchResponds(i, ok)
  \/ UiReady /\ \E i \in Subs, e \in NetworkErrors : FetchFails(i, e)
  \/ UiReady /\ \E i \in Subs : TimerFires(i)
  \/ UiReady /\ \E i \in Subs, body \in ErrBodies : TextResolves(i, body)
  \/ UiReady /\ \E i \in Subs, d \in { PayMin, PayFull } : JsonResolves(i, d)
  \/ UiReady /\ Navigate

UiSpec == Init /\ [][UiNext]_vars

(* ---------------------------------------------------------------------- *)
(* Vocabulary of the properties, stated without the handler's helpers      *)
(* ---------------------------------------------------------------------- *)
InFlight(i) == sub[i].pc \in InFlightPcs
Done(i) == sub[i].pc = "done"

IsBlank(s) == \A k \in 1..Len(s) : s[k] \in {" ", "\n", "\t"}

TexSuffix(n) ==
  /\ Len(n) >= 4
  /\ n[Len(n) - 3] = "."
  /\ n[Len(n) - 2] \in {"t", "T"}
  /\ n[Len(n) - 1] \in {"e", "E"}
  /\ n[Len(n)] \in {"x", "X"}

BadFile(f) == ~f.has \/ ~TexSuffix(f.name)

SubmitEvent == \E via \in {"button", "ctrlEnter"} : Submit(via)

(* C1: at most one POST /api/optimize is in flight at any time.            *)
C1_AtMostOneInFlight == Cardinality({i \in Subs : InFlight(i)}) <= 1

(* C2: every handler that takes the success or the error path runs its     *)
(* cleanup exactly once, in that same step: the form controls are enabled  *)
(* again, its cancel button is removed, its timer is no longer armed and   *)
(* the handler is finished; a finished handler never cleans up again.      *)
C2_CleanupOnce ==
  [][\A i \in Subs :
       /\ sub'[i].cleanups <= 1
       /\ (sub'[i].path # "none") = (sub'[i].pc = "done")
       /\ (sub'[i].pc = "done") = (sub'[i].cleanups = 1)
       /\ sub'[i].pc = "done" => sub'[i].btn = "removed" /\ sub'[i].timer # "armed"
       /\ (sub[i].pc # "done" /\ sub'[i].pc = "done") =>
            /\ ~formDisabled'
            /\ \A k \in Subs : sub'[k].btn # "disabled"
       /\ sub[i].pc = "done" => sub'[i].pc = "done" /\ sub'[i].cleanups = 1]_vars

C2_Witness ==
  \E i, j \in Subs :
    /\ Done(i) /\ sub[i].path = "error" /\ sub[i].fired = {"timer"} /\ sub[i].cleanups = 1
    /\ Done(j) /\ sub[j].path = "success" /\ sub[j].cleanups = 1
    /\ ~formDisabled

(* C3: a request in flight, in whichever phase, is ended by the 180 s      *)
(* budget: the handler always eventually finishes (or the page is left).   *)
C3_BoundedByBudget ==
  \A i \in Subs : InFlight(i) ~> (Done(i) \/ nav = "done")

(* C4: the first abort trigger of a request (timer or cancel click) ends   *)
(* its handler with the abort outcome, the form enabled, its button gone   *)
(* and its timer disarmed; from then on neither trigger changes anything   *)
(* of that handler, so at most one trigger ever acts on a request.         *)
C4_SecondTriggerNoOp ==
  [][\A i \in Subs :
       /\ (sub[i].fired = {} /\ sub'[i].fired # {}) =>
            /\ Cardinality(sub'[i].fired) = 1
            /\ sub'[i].pc = "done" /\ sub'[i].err = AbortError
            /\ sub'[i].btn = "removed" /\ sub'[i].timer # "armed"
            /\ ~formDisabled'
       /\ sub[i].fired # {} => sub'[i] = sub[i]]_vars

C4_Witness ==
  \E i, j \in Subs :
    /\ Done(i) /\ sub[i].fired = {"timer"} /\ sub[i].timer = "fired"
    /\ Done(j) /\ sub[j].fired = {"cancel"} /\ sub[j].timer = "cleared"
    /\ ~formDisabled
    /\ \A k \in Subs : sub[k].btn \in {"none", "removed"}

(* C5: a request ended by the cancel click and one ended by the timer      *)
(* give the handler distinguishable outcomes (the error it catches and the *)
(* notification it leaves).                                                *)
C5_Distinguishable ==
  \A i, j \in Subs :
    (Done(i) /\ Done(j) /\ sub[i].fired = {"cancel"} /\ sub[j].fired = {"timer"})
      => <<sub[i].err, sub[i].notes[Len(sub[i].notes)]>>
           # <<sub[j].err, sub[j].notes[Len(sub[j].notes)]>>

(* C6: every failed submission produces exactly one notification.         *)
C6_OneNotification ==
  \A i \in Subs : (Done(i) /\ sub[i].path = "error") => Len(sub[i].notes) = 1

(* C7: while the job description is empty or only whitespace, no step      *)
(* issues a request, whatever file is selected.                            *)
C7_BlankJdNoRequest ==
  [][IsBlank(jd) => (nFetch' = nFetch /\ \A i \in Subs : InFlight(i)' => InFlight(i))]_vars

C7_Witness ==
  /\ emitted = <<MsgValidation>>
  /\ jd = <<" ", "\n", "\t">>
  /\ file = ResumeTex
  /\ nFetch = 0 /\ ~formDisabled

C9_InvalidSubmitFrame ==
  [][(SubmitEvent /\ (BadFile(file) \/ IsBlank(jd))) =>
       /\ UNCHANGED <<net, sub, formDisabled, nFetch, store, now, nav>>
       /\ emitted' = <<MsgValidation>>
       /\ toast'.text = MsgValidation /\ toast'.visible]_vars

C9_Witness ==
  /\ emitted = <<MsgValidation>>
  /\ file = ResumePdf /\ ~IsBlank(jd)
  /\ nFetch = 0 /\ ~formDisabled
  /\ \A i \in Subs : sub[i] = FreshSub
  /\ store = EmptyStore

(* C10: a 2xx answer whose JSON body has a missing or empty tex_string     *)
(* takes the error path: no persisted key changes, one error notification  *)
(* is shown and no navigation is scheduled.                                *)
MissingTex(d) == d.kind # "object" \/ d.tex_string = None \/ d.tex_string = Some("")

C10_EmptyTexIsError ==
  [][\A i \in Subs, d \in Payloads :
       (JsonResolves(i, d) /\ MissingTex(d)) =>
          /\ store' = store /\ nav' = nav
          /\ sub'[i].pc = "done" /\ sub'[i].path = "error"
          /\ Len(sub'[i].notes) = 1
          /\ emitted' = sub'[i].notes]_vars

C10_Witness ==
  \E i \in Subs :
    /\ Done(i) /\ sub[i].err = EmptyLatexError /\ sub[i].path = "error"
    /\ store = EmptyStore /\ nav = "none"

(* C11: in every reachable state of the store (submissions that succeed,   *)
(* fail or hit a failing storage write, and resets) the persisted result   *)
(* is entirely absent, or its hirex_tex is non-empty whenever hirex_pdf    *)
(* or hirex_pdf_humanized is non-empty.                                    *)
ResultAbsent == \A k \in ResultKeys : store[k] = None

C11_ResultConsistent ==
  \/ ResultAbsent
  \/ (Truthy(store["hirex_pdf"]) \/ Truthy(store["hirex_pdf_humanized"]))
        => Truthy(store["hirex_tex"])

\* a write sequence that broke off after hirex_tex, over an earlier result
C11_Witness ==
  /\ store["hirex_tex"] = Some("T2")
  /\ store["hirex_pdf"] = Some("P1")
  /\ store["hirex_timestamp"] = Some(1)

(* C12: a persisted result changes only by full overwrite: when a          *)
(* successful submission is persisted, every result key holds the value    *)
(* derived from that submission's payload (what persisting it into an      *)
(* empty store gives) and none keeps a value of an earlier submission.     *)
C12_FullOverwrite ==
  [][\A i \in Subs, d \in Payloads :
       (JsonResolves(i, d) /\ ~MissingTex(d)) =>
          \A k \in ResultKeys :
             store'[k] = persistResults(EmptyStore, d, sub[i].useHumanize, now)[k]]_vars

\* the state TLC ends in: the second result without score and paths, the
\* first one's score and paths still stored
C12_Witness ==
  /\ store["hirex_tex"] = Some("T2")
  /\ store["hirex_timestamp"] = Some(2)
  /\ store["hirex_rating_score"] = Some(87)
  /\ store["hirex_saved_paths"] = Some(<<"out/a.pdf">>)

(* C13: the fit score stored by a successful submission is the payload's   *)
(* rating_score when that is a number, otherwise coverage_ratio * 100      *)
(* rounded to the nearest integer, halves up (0.873 gives 87), and         *)
(* otherwise the stored fit score is absent.                               *)
NearestPercent(permille) ==
  CHOOSE q \in 0..((MaxPermille \div 10) + 1) :
    10 * q - 5 <= permille /\ permille < 10 * q + 5

ExpectedScore(d) ==
  IF d.rating_score # None THEN d.rating_score
  ELSE IF d.coverage_permille # None
       THEN Some(NearestPercent(d.coverage_permille[1]))
       ELSE None

C13_FitScore ==
  [][\A d \in ScorePayloads :
       ScorePersist(d) => store'["hirex_rating_score"] = ExpectedScore(d)]_vars

\* the example of the specification
C13_Witness ==
  /\ store["hirex_rating_score"] = Some(87)
  /\ store["hirex_tex"] = Some("T2")
  /\ store["hirex_timestamp"] = Some(1)

(* C14: reset removes each of the eleven result keys, which are exactly    *)
(* the keys a submission can write, leaves the theme and the humanize      *)
(* preference keys as they were, and shows the cache-cleared notification. *)
WrittenKeys ==
  UNION { { Writes(d, h, 0)[n][1] : n \in 1..Len(Writes(d, h, 0)) } :
            d \in Payloads, h \in BOOLEAN }

C14_ResetFrame ==
  [][Reset =>
       /\ \A k \in WrittenKeys : store'[k] = None
       /\ Cardinality(WrittenKeys) = 11
       /\ \A k \in StoreKeys \ WrittenKeys : store'[k] = store[k]
       /\ \A k \in PrefKeys : store'[k] = store[k]
       /\ emitted' = <<MsgCleared>>
       /\ toast'.text = MsgCleared /\ toast'.visible]_vars

\* a reset after a result was stored and both preferences were set
C14_Witness ==
  /\ emitted = <<MsgCleared>>
  /\ now = 2
  /\ \A k \in WrittenKeys : store[k] = None
  /\ store["hirex-theme"] = Some("light")
  /\ store["hirex-use-humanize"] = Some("on")

(* C15: a reset while a request is in flight does not abort it, leaves its *)
(* timer and its cancel button as they are and does not change the         *)
(* controller; the request goes on and, on success, its result is          *)
(* persisted after the reset.                                              *)
C15_ResetKeepsRequest ==
  [][/\ (Reset /\ \E i \in Subs : InFlight(i)) =>
          UNCHANGED <<net, sub, formDisabled, nFetch, nav>>
     /\ \A i \in Subs, d \in Payloads :
          (JsonResolves(i, d) /\ ~MissingTex(d)) =>
             /\ store'["hirex_tex"] = d.tex_string
             /\ sub'[i].path = "success"]_vars

\* just after a reset, a request still pending with its timer and button
C15_Witness ==
  /\ emitted = <<MsgCleared>>
  /\ \A k \in ResultKeys : store[k] = None
  /\ \E i \in Subs :
       /\ sub[i].pc = "awaitFetch"
       /\ sub[i].timer = "armed" /\ sub[i].btn = "enabled"
       /\ ~sub[i].aborted

(* C16: when a toast is shown while an earlier one is still displayed, the *)
(* later message is the one visible and it stays visible for its own full  *)
(* duration counted from its call; the earlier call's timer has no effect. *)
(* This holds for the main page's showToast, HIREX.toast and the preview   *)
(* page's showToast.                                                       *)
WithinLast(l) == l.dur > 0 /\ tt.time < l.at + l.dur

C16_LatestToastFullDuration ==
  /\ WithinLast(tt.last) => (toast.visible /\ toast.text = tt.last.msg)
  /\ WithinLast(tt.pvLast) =>
        (tt.pv.display = "block" /\ tt.pv.opacity = 1 /\ tt.pv.text = tt.pvLast.msg)

\* a second message on the main element, after the moment the first
\* call's timer would have fired
C16_Witness ==
  /\ tt.last = [msg |-> <<"b">>, at |-> 2000, dur |-> MainToastMs]
  /\ tt.time = 3500
  /\ toast.visible /\ toast.text = <<"b">>

(* C17: each failure maps to its notification: an abort gives the          *)
(* "canceled or timed out" message, a connection failure the network       *)
(* message, a non-2xx answer a message holding the body text when that is  *)
(* non-empty and "HTTP <status>" otherwise.                                *)
LastNote(i) == sub[i].notes[Len(sub[i].notes)]

C17_FailureMessages ==
  \A i \in Subs :
    (Done(i) /\ sub[i].path = "error") =>
       /\ sub[i].fired # {} => LastNote(i) = MsgAbort
       /\ sub[i].err \in NetworkErrors => LastNote(i) = MsgNetwork
       /\ \A b \in ErrBodies :
            (b # <<>> /\ sub[i].err = Error(b)) => includes(LastNote(i), b[1])
       /\ sub[i].err = Error(HttpStatusText) => includes(LastNote(i), HttpStatusText[1])

\* the failures that do get their message
C17_Witness ==
  \E i, j \in Subs :
    /\ Done(i) /\ sub[i].err = Error(<<"detail: pdflatex failed">>)
    /\ LastNote(i) = <<"X", "detail: pdflatex failed">>
    /\ Done(j) /\ sub[j].err.message = <<"Failed to fetch">>
    /\ LastNote(j) = MsgNetwork

(* C18: when a storage write fails while the result is persisted, the user *)
(* is warned that the result may not survive a reload and the submission   *)
(* is not reported as a plain success.                                     *)
WriteFailed(d, k) == k < Len(Writes(d, FALSE, 0))

C18_StorageFailureWarned ==
  [][\A i \in Subs, d \in Payloads, k \in 0..Cardinality(ResultKeys) :
       (JsonResolvesQuota(i, d, k) /\ WriteFailed(d, k)) =>
          /\ emitted' # <<SuccessMessage(d)>>
          /\ toast'.text # SuccessMessage(d)]_vars

\* the state TLC ends in: nothing stored, the success toast shown and the
\* navigation to the preview scheduled
C18_Witness ==
  /\ \A k \in ResultKeys : store[k] = None
  /\ emitted = <<SuccessMessage(PayFull)>>
  /\ nav = "scheduled"
  /\ \E i \in Subs : Done(i) /\ sub[i].path = "success"

(* C19: the navigation to the preview page is scheduled only by a step on  *)
(* the success path, in which the result has been written to the cache;    *)
(* the page is left only after the navigation was scheduled (the delay);   *)
(* no step that ends a handler on the error path schedules a navigation.   *)
C19_NavigationOnlyOnSuccess ==
  [][/\ (nav = "none" /\ nav' # "none") =>
          /\ nav' = "scheduled"
          /\ \E i \in Subs :
               /\ sub[i].pc = "awaitJson" /\ sub'[i].path = "success"
               /\ Truthy(store'["hirex_tex"])
               /\ store'["hirex_timestamp"] = Some(now)
     /\ (nav # "done" /\ nav' = "done") => nav = "scheduled"
     /\ \A i \in Subs :
          (sub[i].pc # "done" /\ sub'[i].path = "error") => nav' = nav]_vars

(* C20: one submit action results in at most one POST /api/optimize: a     *)
(* request is issued only by a submit event, one per event, and a handler  *)
(* that has failed (timeout, cancel, network or HTTP error) never awaits a *)
(* fetch again.                                                            *)
C20_NoRetry ==
  [][/\ nFetch' # nFetch => (SubmitEvent /\ nFetch' = nFetch + 1)
     /\ \A i \in Subs :
          /\ (sub[i].pc # "awaitFetch" /\ sub'[i].pc = "awaitFetch") =>
                (SubmitEvent /\ sub[i].pc = "unused")
          /\ sub[i].path = "error" => sub'[i].pc = "done"
     /\ Cardinality({i \in Subs : sub'[i].pc # "unused"}) = nFetch']_vars

\* one submission, ended by a network error: one request was issued
C20_Witness ==
  /\ nFetch = 1
  /\ sub[1].pc = "done" /\ sub[1].err \in NetworkErrors
  /\ \A i \in Subs : i # 1 => sub[i].pc = "unused"

(* ---------------------------------------------------------------------- *)
(* The preview page and the preferences across tabs                        *)
(* ---------------------------------------------------------------------- *)
\* the step in which the preview page is loaded
LoadStep == pg.status = "closed" /\ pg'.status # "closed"

\* the load found localStorage usable
StorageWorked == pg'.error # "SecurityError"

PageNote == pg.notes[Len(pg.notes)]

SuccessNotes ==
  { "LaTeX copied to clipboard!", "Downloading .tex file...",
    "Downloading Resume...", "Downloading file..." }

FailureNotes ==
  { "Unable to copy to clipboard.", "Unable to download LaTeX file.",
    "Unable to download PDF.", "Download failed." }

PrefWrites ==
  (Tabs \X { "hirex-theme" } \X Themes) \cup
  (Tabs \X { "hirex-use-humanize" } \X { "on", "off" })

\* C21: the storage adapter never raises (lsGet gives the stored string or
\* null, lsSet gives true or false, also when the storage throws), and no
\* other storage access lets a storage failure escape as an unhandled
\* exception: the preview load never ends in the storage's exception.
C21_StorageNeverEscapes ==
  /\ \A k \in StoreKeys :
       /\ lsGet(store, k, FALSE) = store[k] /\ lsGet(store, k, TRUE) = None
       /\ lsSet(store, k, "v", FALSE).ok /\ ~lsSet(store, k, "v", TRUE).ok
  /\ pg.error # "SecurityError"

\* C22: a preview load that finds every result key absent does not fail;
\* organization and position take the data model's defaults
\* "UnknownCompany" and "UnknownRole", the text is empty, there is no
\* binary and no score, and the "no result" state is rendered.
C22_AbsentDefaults ==
  [][(LoadStep /\ StorageWorked /\ \A k \in ResultKeys : store[k] = None)
       => /\ pg'.status = "ready"
          /\ pg'.company = "UnknownCompany" /\ pg'.role = "UnknownRole"
          /\ pg'.texString = "" /\ pg'.pdfB64 = "" /\ pg'.pdfB64Humanized = ""
          /\ pg'.sections = {} /\ ~pg'.card
          /\ pg'.view = "placeholder"]_vars

\* C23: round trip: a preview load that follows a persisted payload yields
\* organization, position, text and both binaries identical to the values
\* that were written.
C23_RoundTrip ==
  [][(LoadStep /\ StorageWorked /\ store["hirex_version"] # None)
       => /\ Some(pg'.company) = store["hirex_company"]
          /\ Some(pg'.role) = store["hirex_role"]
          /\ Some(pg'.texString) = store["hirex_tex"]
          /\ Some(pg'.pdfB64) = store["hirex_pdf"]
          /\ Some(pg'.pdfB64Humanized) = store["hirex_pdf_humanized"]]_vars

\* C24: a stored score history that is not valid JSON is treated as
\* absent: the load goes on with zero rounds (the text view and the copy
\* and download listeners are set up) and the parse error is not propagated.
C24_MalformedHistoryAbsent ==
  [][(LoadStep /\ StorageWorked /\ store["hirex_rating_history"] = Some(NotJson))
       => /\ pg'.ratingRounds = 0
          /\ pg'.error # "SyntaxError"
          /\ pg'.view # "none" /\ pg'.copyHandler /\ pg'.texHandler]_vars

C24_Witness ==
  /\ pg.status = "ready"
  /\ store["hirex_rating_history"] = Some(NotJson)
  /\ pg.ratingRounds = 0 /\ pg.view = "tex" /\ pg.card

\* C25: every export of a cached artifact succeeds from the cached data
\* alone: each click on a PDF download button, a second or later click on
\* the same button included, fetches its data and gives a download, never
\* the failure notification.
C25_ExportsSucceed ==
  /\ \A k \in 1..Len(pg.fetches) : pg.fetches[k].ok
  /\ \A k \in 1..Len(pg.notes) : pg.notes[k].msg # "Unable to download PDF."

\* C26: a cached PDF that is not valid base64 is handled safely: the load
\* completes, with the text view, the copy and download listeners and the
\* other PDF section set up, and a notification reports the failure.
C26_BadBase64Safe ==
  (pg.status # "closed" /\ pg.pdfB64 # "" /\ pg.pdfB64 \notin ValidBase64)
    => /\ pg.status = "ready"
       /\ pg.view # "none" /\ pg.copyHandler /\ pg.texHandler /\ pg.pdfHandler
       /\ (pg.pdfB64Humanized \in ValidBase64 => "hum" \in pg.sections)
       /\ \E k \in 1..Len(pg.notes) : pg.notes[k].msg = "Failed to decode Base64."

\* C27: copy and download report success and failure distinctly: after a
\* failed clipboard write or download the notification left is a failure
\* message, and a success message is left only after a success.
C27_DistinctOutcome ==
  pg.lastOp.op # "none"
    => /\ ~pg.lastOp.ok => PageNote.msg \in FailureNotes
       /\ PageNote.msg \in SuccessNotes => pg.lastOp.ok

C29_AlertFallback ==
  /\ \A m \in { MsgValidation, MsgCleared } : mainShowToast(FALSE, m).via = "alert"
  /\ ~pg.toastEl => \A k \in 1..Len(pg.notes) : pg.notes[k].via = "alert"

\* C30: the preview page shows the JD Fit Score card if and only if a
\* score exists in the cache.
C30_ScoreCardIffScore ==
  [][(LoadStep /\ StorageWorked /\ pg'.status = "ready")
       => (pg'.card <=> store["hirex_rating_score"] # None)]_vars

(* ---------------------------------------------------------------------- *)
(* The theme key, the humanize switch, the helpers of util.js              *)
(* ---------------------------------------------------------------------- *)
ThemeKeyChanges == store'["hirex-theme"] # store["hirex-theme"]

\* the step is a theme button click in tab t
ToggleIn(t) ==
  /\ tabs.tab[t].open
  /\ tabs'.actor = t /\ tabs'.via = "theme"
  /\ tabs'.writes = tabs.writes + 1 /\ tabs'.sys = tabs.sys
  /\ tabs'.tab[t].queue = tabs.tab[t].queue

\* the step handles a "change" event of the colour scheme in tab t
HandlesSystemChange(t) ==
  /\ tabs.tab[t].queue # <<>>
  /\ Head(tabs.tab[t].queue).key = "mql"
  /\ tabs'.tab[t].queue = Tail(tabs.tab[t].queue)

SwitchParts(t) ==
  { tabs.tab[t].on, tabs.tab[t].aria = "true", tabs.tab[t].hidden = "on" }

AllDelivered == \A t \in Tabs : tabs.tab[t].queue = <<>>

RequestStarts == nFetch' = nFetch + 1

C40_ScoreInRange ==
  store["hirex_rating_score"] # None
    => store["hirex_rating_score"][1] \in 0..100

\* the fit-tier label of a score
FitTier(score) ==
  IF score >= 90 THEN "Excellent"
  ELSE IF score >= 75 THEN "Strong"
  ELSE IF score >= 60 THEN "Moderate"
  ELSE IF score > 0 THEN "Low"
  ELSE "Awaiting Analysis"

\* C31: on every preview-page load the cached state carries a fit-tier
\* label computed from the fit score ("Excellent" from 90, "Strong" from
\* 75, "Moderate" from 60, "Low" above 0, "Awaiting Analysis" otherwise),
\* and the load writes nothing to storage.
C31_FitTierLabel ==
  [][(LoadStep /\ StorageWorked /\ pg'.status = "ready")
       => /\ FitTier(pg'.ratingScore) \in scoreCardLabels(pg')
          /\ store' = store]_vars

\* the step is a debug-log request failing
LogFails == net.logs > 0 /\ net'.logs = net.logs - 1 /\ net'.warned

\* C32: a failure of the debug-log request is swallowed: debugLog does not
\* reject, shows no notification, and changes neither the submission
\* state nor any persisted key.
C32_DebugLogSwallowed ==
  [][LogFails
       => /\ net'.logOutcome = "resolved"
          /\ toast' = toast /\ emitted' = emitted /\ net'.toast = net.toast
          /\ sub' = sub /\ nFetch' = nFetch /\ formDisabled' = formDisabled
          /\ nav' = nav /\ net'.pc = net.pc
          /\ store' = store]_vars

\* a debug-log request has failed while a submission was in flight
C32_Witness ==
  /\ net.warned /\ net.logOutcome = "resolved"
  /\ \E i \in Subs : InFlight(i)

DoFetchSettled == net.pc \in {"resolved", "rejected"}

\* C33: _doFetch(url, options, n) terminates after at most n+1 attempts:
\* a failed attempt is followed by a pause and another attempt while
\* retries remain, no timeout timer is armed outside an attempt, and with
\* the retries used up the call rejects with the error of the last attempt.
C33_DoFetchTerminates ==
  /\ [](/\ net.attempts <= net.n + 1
        /\ (net.pc # "awaitFetch" => ~net.timer)
        /\ (net.pc = "pause" => net.retries > 0)
        /\ (net.pc = "rejected"
              => /\ Len(net.errs) = net.n + 1
                 /\ net.thrown = net.errs[Len(net.errs)]))
  /\ (net.pc = "awaitFetch" ~> DoFetchSettled)

====
